---- MODULE Spec2Model ----
(***************************************************************************)
(* Model of momepy/intensity.py: the intensity characters that walk a      *)
(* libpysal spatial-weights object (spatial_weights.neighbors, a dict of   *)
(* Python lists keyed by unit index).                                      *)
(*                                                                         *)
(*   courtyards      modelled statement by statement (one action per loop  *)
(*                   head / block), since its closure loop iterates a list *)
(*                   while appending to it;                                *)
(*   reached, blocks_count, node_density, elements_count                   *)
(*                   modelled as one action per call (straight-line loops  *)
(*                   over the rows, run to completion).                    *)
(*                                                                         *)
(* Python lists are sequences (1-indexed here), dicts are functions over   *)
(* the set of keys present.  A name that is not bound yet is <<>>, a bound *)
(* value v is <<v>>.                                                       *)
(***************************************************************************)
EXTENDS Integers, Sequences, FiniteSets, TLC

\* ---------------------------------------------------------------- bounds
MaxUnits == 3      \* rows of the (geo)dataframe: index 0 .. MaxUnits-1
MaxEdges == 3      \* total number of entries over all adjacency lists
MaxHoles == 1      \* largest interior-ring count the geometry step returns
MaxCalls == 2      \* 1-hop calls made on one spatial-weights object
MaxRight == 2      \* rows of the right table
MaxBlock == 1      \* block ids are 0 .. MaxBlock
MaxArea == 1       \* elements_count: unit areas / lengths are 0 .. MaxArea

Units == 0 .. (MaxUnits - 1)

\* ------------------------------------------------------- generic helpers
SeqsUpTo(S, n) == UNION {[1 .. k -> S] : k \in 0 .. n}

Range(s) == {s[i] : i \in 1 .. Len(s)}

\* Python's `x in lst` for a list
InList(x, lst) == \E i \in 1 .. Len(lst) : lst[i] = x

\* every dict of lists over the keys S with at most budget entries in total
RECURSIVE GraphsOver(_, _)
GraphsOver(S, budget) ==
    IF S = {} THEN {<<>>}
    ELSE LET u == CHOOSE x \in S : TRUE
         IN  UNION {{rest @@ (u :> lst) : rest \in GraphsOver(S \ {u}, budget - Len(lst))} :
                       lst \in SeqsUpTo(Units, budget)}

\* the adjacency structures the model starts from: every dict of lists over
\* Units with at most MaxEdges entries in total (self-loops, repeated
\* entries and one-directional edges included)
Graphs == GraphsOver(Units, MaxEdges)

Unbound == <<>>

NoRet == [op |-> "none", status |-> "none", exc |-> "", args |-> <<>>, value |-> <<>>]

\* a call left by an exception
Raised(op, exc) == [op |-> op, status |-> "raised", exc |-> exc, args |-> <<>>, value |-> <<>>]

VARIABLES
    neighbors,      \* spatial_weights.neighbors : unit -> list of units
    neighbors0,     \* history: the adjacency lists as the caller built them
    calls,          \* history: 1-hop calls made so far on this weights object
    pc,             \* control point of the running courtyards call, or "idle"
    index,          \* courtyards: row of the outer loop (line 209)
    to_join,        \* courtyards: local list (line 214)
    neighbours,     \* courtyards: local list (line 215)
    pos,            \* courtyards: position of `for n in neighbours` (line 220)
    interiors,      \* courtyards: local name, Unbound until first assigned
    courtyards,     \* courtyards: the dict of line 207
    groups,         \* history: one record per geometry step of the call
    interiors_src,  \* history: seed of the step that last assigned interiors
    prov,           \* history: unit -> [src, owner] of its dict entry
    ret             \* what the last finished call returned or raised

vars == <<neighbors, neighbors0, calls, pc, index, to_join, neighbours, pos,
          interiors, courtyards, groups, interiors_src, prov, ret>>

EmptyDict == [u \in {} |-> 0]

InitLocals ==
    /\ index = 0
    /\ to_join = <<>>
    /\ neighbours = <<>>
    /\ pos = 1
    /\ interiors = Unbound
    /\ courtyards = EmptyDict
    /\ groups = <<>>
    /\ interiors_src = Unbound
    /\ prov = EmptyDict

\* the locals of an earlier courtyards call are gone once another call runs
FreshLocals ==
    /\ index' = 0
    /\ to_join' = <<>>
    /\ neighbours' = <<>>
    /\ pos' = 1
    /\ interiors' = Unbound
    /\ courtyards' = EmptyDict
    /\ groups' = <<>>
    /\ interiors_src' = Unbound
    /\ prov' = EmptyDict

Init ==
    /\ neighbors \in Graphs
    /\ neighbors0 = neighbors
    /\ calls = 0
    /\ pc = "idle"
    /\ InitLocals
    /\ ret = NoRet

\* ------------------------------------------------------------ courtyards
\* entry: lines 194-207 (spatial_weights is passed, so 200-204 are skipped)
CourtyardsCall ==
    /\ pc = "idle"
    /\ pc' = "rows"
    /\ FreshLocals
    /\ ret' = NoRet
    /\ UNCHANGED <<neighbors, neighbors0, calls>>

\* lines 209-212: a row already in the dict is skipped
RowSkip ==
    /\ pc = "rows"
    /\ index \in Units
    /\ index \in DOMAIN courtyards
    /\ index' = index + 1
    /\ UNCHANGED <<neighbors, neighbors0, calls, pc, to_join, neighbours, pos,
                   interiors, courtyards, groups, interiors_src, prov, ret>>

\* lines 213-218: a new seed; neighbours is a copy of its adjacency list
RowSeed ==
    /\ pc = "rows"
    /\ index \in Units
    /\ index \notin DOMAIN courtyards
    /\ to_join' = <<index>>
    /\ neighbours' = neighbors[index]
    /\ pos' = 1
    /\ pc' = "for"
    /\ UNCHANGED <<neighbors, neighbors0, calls, index, interiors, courtyards,
                   groups, interiors_src, prov, ret>>

\* line 220: `for n in neighbours` -- the list iterator re-reads the length
\* at every step, so entries appended by the body are visited too
ForNext ==
    /\ pc = "for"
    /\ pos <= Len(neighbours)
    /\ pc' = "while"
    /\ UNCHANGED <<neighbors, neighbors0, calls, index, to_join, neighbours,
                   pos, interiors, courtyards, groups, interiors_src, prov, ret>>

ForExit ==
    /\ pc = "for"
    /\ pos > Len(neighbours)
    /\ pc' = "geometry"
    /\ UNCHANGED <<neighbors, neighbors0, calls, index, to_join, neighbours,
                   pos, interiors, courtyards, groups, interiors_src, prov, ret>>

\* line 221: the test of `while n not in to_join`, n = neighbours[pos]
\* the test comparing n with the seed only
WhileCondSeedOnly(n, tj) == n # tj[1]

WhileCond(n, tj) == ~InList(n, tj)

\* lines 222-225: one pass of the while body, then back to the test
WhileBody ==
    /\ pc = "while"
    /\ WhileCond(neighbours[pos], to_join)
    /\ to_join' = Append(to_join, neighbours[pos])
    /\ neighbours' = neighbours \o neighbors[neighbours[pos]]
    /\ UNCHANGED <<neighbors, neighbors0, calls, pc, index, pos, interiors,
                   courtyards, groups, interiors_src, prov, ret>>

\* line 221 false: the for loop takes the next entry
WhileExit ==
    /\ pc = "while"
    /\ ~WhileCond(neighbours[pos], to_join)
    /\ pos' = pos + 1
    /\ pc' = "for"
    /\ UNCHANGED <<neighbors, neighbors0, calls, index, to_join, neighbours,
                   interiors, courtyards, groups, interiors_src, prov, ret>>

Group(outcome) == [seed |-> index, to_join |-> to_join, outcome |-> outcome]

\* lines 226-229, no exception: interiors is bound to the ring count
GeometryOk ==
    /\ pc = "geometry"
    /\ \E h \in 0 .. MaxHoles : interiors' = <<h>>
    /\ interiors_src' = <<index>>
    /\ groups' = Append(groups, Group("ok"))
    /\ pc' = "fill"
    /\ UNCHANGED <<neighbors, neighbors0, calls, index, to_join, neighbours,
                   pos, courtyards, prov, ret>>

\* lines 228-231: ValueError inside the try is caught, a message is printed
\* and interiors keeps whatever it was bound to before (or stays unbound)
GeometryValueError ==
    /\ pc = "geometry"
    /\ groups' = Append(groups, Group("ValueError"))
    /\ pc' = "fill"
    /\ UNCHANGED <<neighbors, neighbors0, calls, index, to_join, neighbours,
                   pos, interiors, interiors_src, courtyards, prov, ret>>

\* lines 232-233 with interiors never assigned: UnboundLocalError
FillUnbound ==
    /\ pc = "fill"
    /\ interiors = Unbound
    /\ pc' = "idle"
    /\ ret' = Raised("courtyards", "UnboundLocalError")
    /\ UNCHANGED <<neighbors, neighbors0, calls, index, to_join, neighbours, pos,
                   interiors, interiors_src, courtyards, groups, prov>>

\* the dict after `for b in to_join: courtyards[b] = interiors`
FillDict(d, tj, v) == [b \in DOMAIN d \cup Range(tj) |-> IF b \in Range(tj) THEN v ELSE d[b]]

\* lines 232-233, then the next row of the loop at 209
Fill ==
    /\ pc = "fill"
    /\ interiors # Unbound
    /\ courtyards' = FillDict(courtyards, to_join, interiors[1])
    /\ prov' = FillDict(prov, to_join, [src |-> interiors_src[1], owner |-> index])
    /\ index' = index + 1
    /\ pc' = "rows"
    /\ UNCHANGED <<neighbors, neighbors0, calls, to_join, neighbours, pos,
                   interiors, interiors_src, groups, ret>>

\* lines 235-240: results_list in row order, returned as a Series
Collect ==
    /\ pc = "rows"
    /\ index \notin Units
    /\ pc' = "idle"
    /\ ret' = [op |-> "courtyards", status |-> "ok", exc |-> "", args |-> <<>>,
               value |-> [i \in 1 .. MaxUnits |-> courtyards[i - 1]]]
    /\ UNCHANGED <<neighbors, neighbors0, calls, index, to_join, neighbours, pos,
                   interiors, interiors_src, courtyards, groups, prov>>

CourtyardsStep ==
    \/ RowSkip
    \/ RowSeed
    \/ ForNext
    \/ ForExit
    \/ WhileBody
    \/ WhileExit
    \/ GeometryOk
    \/ GeometryValueError
    \/ FillUnbound
    \/ Fill
    \/ Collect

NextCourtyards == CourtyardsCall \/ CourtyardsStep

SpecCourtyards == Init /\ [][NextCourtyards]_vars

\* The closure of lines 214-225 on its own: it reads spatial_weights and
\* the seed only, so it is started at the loop head for every seed.
InitClosure ==
    /\ neighbors \in Graphs
    /\ neighbors0 = neighbors
    /\ calls = 0
    /\ pc = "rows"
    /\ index \in Units
    /\ to_join = <<>>
    /\ neighbours = <<>>
    /\ pos = 1
    /\ interiors = Unbound
    /\ courtyards = EmptyDict
    /\ groups = <<>>
    /\ interiors_src = Unbound
    /\ prov = EmptyDict
    /\ ret = NoRet

NextClosure ==
    \/ RowSeed
    \/ ForNext
    \/ ForExit
    \/ WhileBody
    \/ WhileExit

\* a running call always executes its next statement
FairClosure == InitClosure /\ [][NextClosure]_vars /\ WF_vars(NextClosure)

\* ------------------------------------------------------- tables and sums
\* left.nID / left[left_id]: the id column of the left table, by row
nID(u) == 10 * (u + 1)

Keys == {nID(u) : u \in Units}

\* right[unique_id]: the key column of the right table, one entry per row
RightTables == SeqsUpTo(Keys, MaxRight)

\* right[values] (or right.geometry.area): the value of row j
RightValue(j) == j

RECURSIVE SumSeq(_)
SumSeq(q) == IF q = <<>> THEN 0 ELSE Head(q) + SumSeq(Tail(q))

RECURSIVE SumOver(_, _)
SumOver(f, S) ==
    IF S = {} THEN 0
    ELSE LET x == CHOOSE y \in S : TRUE
         IN  f[x] + SumOver(f, S \ {x})

\* collections.Counter(right[unique_id])[k]; a missing key counts 0
Counter(right, k) == Cardinality({j \in 1 .. Len(right) : right[j] = k})

\* numpy / pandas float division: x/0 is inf, 0/0 is nan, nothing is raised
Div(a, b) ==
    IF b # 0 THEN [kind |-> "num", num |-> a, den |-> b]
    ELSE IF a = 0 THEN [kind |-> "nan", num |-> 0, den |-> 0]
    ELSE [kind |-> "inf", num |-> 0, den |-> 0]

Returned(op, args, value) ==
    [op |-> op, status |-> "ok", exc |-> "", args |-> args, value |-> value]

Series(f) == [i \in 1 .. MaxUnits |-> f[i - 1]]

\* --------------------------------------------------------------- reached
\* lines 368-369: neighbours IS the list stored in spatial_weights.neighbors
\* (no copy is taken), and index is appended to it
ReachedNeighbours(nb, u) == Append(nb[u], u)

\* lines 366 / 370: ids, one entry per entry of neighbours
ReachedIds(nb, u, sw) ==
    IF sw THEN [i \in 1 .. Len(ReachedNeighbours(nb, u)) |-> nID(ReachedNeighbours(nb, u)[i])]
    ELSE <<nID(u)>>

\* lines 371-375: mode 'count' adds count[nid] for every entry of ids
ReachedCount(ids, right) == SumSeq([i \in 1 .. Len(ids) |-> Counter(right, ids[i])])

\* lines 376-380: mode 'sum' selects the rows of right with isin(ids)
ReachedSum(ids, right) ==
    SumOver([j \in 1 .. Len(right) |-> RightValue(j)],
            {j \in 1 .. Len(right) : right[j] \in Range(ids)})

ReachedValue(nb, u, right, sw, mode) ==
    IF mode = "count" THEN ReachedCount(ReachedIds(nb, u, sw), right)
    ELSE ReachedSum(ReachedIds(nb, u, sw), right)

\* the adjacency lists after the loop of lines 364-390
ReachedGraph(nb, sw) ==
    IF sw THEN [u \in Units |-> ReachedNeighbours(nb, u)] ELSE nb

ReachedCall ==
    /\ pc = "idle"
    /\ calls < MaxCalls
    /\ calls' = calls + 1
    /\ \E right \in RightTables, sw \in BOOLEAN, mode \in {"count", "sum"} :
          /\ neighbors' = ReachedGraph(neighbors, sw)
          /\ ret' = Returned("reached", <<right, sw, mode>>,
                      Series([u \in Units |-> ReachedValue(neighbors, u, right, sw, mode)]))
    /\ FreshLocals
    /\ UNCHANGED <<neighbors0, pc>>

\* ---------------------------------------------------------- blocks_count
\* rows whose adjacency list is empty (line 292 false)
EmptyRows(nb) == {u \in Units : nb[u] = <<>>}

\* line 295 binds neighbours to the scalar id, and isin() of line 296
\* accepts list-likes only: the first such row raises TypeError
BlocksRaisesAt(nb) ==
    IF EmptyRows(nb) = {} THEN MaxUnits
    ELSE CHOOSE u \in EmptyRows(nb) : \A v \in EmptyRows(nb) : u <= v

\* lines 291-293: the rows before the raising one appended their id to the
\* stored list
BlocksGraph(nb) ==
    [u \in Units |-> IF u < BlocksRaisesAt(nb) THEN Append(nb[u], u) ELSE nb[u]]

\* line 296: the rows of gdf whose id is in neighbours
Vicinity(nb, u) == {v \in Units : v \in Range(Append(nb[u], u))}

\* gdf.geometry.area of a tessellation cell (positive)
Area(u) == u + 1

\* line 298
BlocksValue(nb, u, block) ==
    Div(Cardinality({block[v] : v \in Vicinity(nb, u)}),
        SumOver([v \in Units |-> Area(v)], Vicinity(nb, u)))

BlocksCountCall ==
    /\ pc = "idle"
    /\ calls < MaxCalls
    /\ calls' = calls + 1
    /\ neighbors' = BlocksGraph(neighbors)
    /\ \E block \in [Units -> 0 .. MaxBlock] :
          ret' = IF BlocksRaisesAt(neighbors) \in Units
                 THEN Raised("blocks_count", "TypeError")
                 ELSE Returned("blocks_count", <<block>>,
                        Series([u \in Units |-> BlocksValue(neighbors, u, block)]))
    /\ FreshLocals
    /\ UNCHANGED <<neighbors0, pc>>

\* ---------------------------------------------------------- node_density
\* the edge table: rows (node_start, node_end), start < end
EdgeRows == {e \in Units \X Units : e[1] < e[2]}

\* right.geometry.length of an edge row
EdgeLength(e) == e[1] + e[2]

\* left[node_degree]: number of edge rows at the node
NodeDegree(edges, u) == Cardinality({e \in edges : e[1] = u \/ e[2] = u})

\* lines 446-447: a copy of the stored list, with index appended
DensityNeighbours(nb, u) == Append(nb[u], u)

\* lines 448-452
NumberNodes(nb, u, edges, weighted) ==
    IF weighted
    THEN SumSeq([i \in 1 .. Len(DensityNeighbours(nb, u)) |->
                    NodeDegree(edges, DensityNeighbours(nb, u)[i]) - 1])
    ELSE Len(DensityNeighbours(nb, u))

\* lines 454-455
DensityLength(nb, u, edges) ==
    SumOver([e \in edges |-> EdgeLength(e)],
            {e \in edges : /\ e[1] \in Range(DensityNeighbours(nb, u))
                           /\ e[2] \in Range(DensityNeighbours(nb, u))})

\* lines 457-460
DensityValue(nb, u, edges, weighted) ==
    IF DensityLength(nb, u, edges) > 0
    THEN Div(NumberNodes(nb, u, edges, weighted), DensityLength(nb, u, edges))
    ELSE Div(0, 1)

NodeDensityCall ==
    /\ pc = "idle"
    /\ calls < MaxCalls
    /\ calls' = calls + 1
    /\ \E edges \in SUBSET EdgeRows, weighted \in BOOLEAN :
          ret' = Returned("node_density", <<edges, weighted>>,
                   Series([u \in Units |-> DensityValue(neighbors, u, edges, weighted)]))
    /\ FreshLocals
    /\ UNCHANGED <<neighbors, neighbors0, pc>>

NextCalls ==
    \/ ReachedCall
    \/ BlocksCountCall
    \/ NodeDensityCall
    \/ CourtyardsCall
    \/ CourtyardsStep

SpecCalls == Init /\ [][NextCalls]_vars

NextReached == ReachedCall

SpecReached == Init /\ [][NextReached]_vars

\* -------------------------------------------------------- elements_count
\* left.geometry[0].type decides the branch of lines 161-166 for every row
GeometryTypes == {"Polygon", "MultiPolygon", "LineString", "MultiLineString", "Point"}

\* lines 155-158: the count joined to the row (a missing key gives NaN,
\* replaced by 0)
JoinedCount(right, u) == Counter(right, nID(u))

\* lines 160-168 for one row; measure is left.geometry.area for polygons
\* and left.geometry.length for lines
ElementsValue(right, u, weighted, measure) ==
    IF weighted THEN Div(JoinedCount(right, u), measure[u])
    ELSE Div(JoinedCount(right, u), 1)

\* line 166
ElementsRaises(weighted, gtype) ==
    weighted /\ gtype \notin {"Polygon", "MultiPolygon", "LineString", "MultiLineString"}

ElementsCountCall ==
    /\ pc = "idle"
    /\ \E right \in RightTables, weighted \in BOOLEAN, gtype \in GeometryTypes,
          measure \in [Units -> 0 .. MaxArea] :
          ret' = IF ElementsRaises(weighted, gtype)
                 THEN Raised("elements_count", "TypeError")
                 ELSE Returned("elements_count", <<right, weighted, gtype, measure>>,
                        Series([u \in Units |-> ElementsValue(right, u, weighted, measure)]))
    /\ FreshLocals
    /\ UNCHANGED <<neighbors, neighbors0, calls, pc>>

\* elements_count takes no spatial weights: the adjacency lists stay empty
InitElements ==
    /\ neighbors = [u \in Units |-> <<>>]
    /\ neighbors0 = neighbors
    /\ calls = 0
    /\ pc = "idle"
    /\ InitLocals
    /\ ret = NoRet

NextElements == ElementsCountCall

SpecElements == InitElements /\ [][NextElements]_vars

\* ------------------------------------------------- vocabulary of the claims
\* units reachable from the set S along the adjacency lists of g
RECURSIVE ReachFrom(_, _)
ReachFrom(g, S) ==
    LET T == S \cup UNION {Range(g[u]) : u \in S}
    IN  IF T = S THEN S ELSE ReachFrom(g, T)

\* g with every edge usable in both directions
Undirected(g) == [u \in Units |-> {v \in Units : v \in Range(g[u]) \/ u \in Range(g[v])}]

RECURSIVE ComponentOf(_, _)
ComponentOf(g, S) ==
    LET T == S \cup UNION {Undirected(g)[u] : u \in S}
    IN  IF T = S THEN S ELSE ComponentOf(g, T)

\* the connected components of the adjacency graph
Components(g) == {ComponentOf(g, {u}) : u \in Units}

CourtyardsReturned == pc = "idle" /\ ret.op = "courtyards" /\ ret.status = "ok"

CourtyardsAborted == pc = "idle" /\ ret.op = "courtyards" /\ ret.status = "raised"

GroupFailed(i) == groups[i].outcome = "ValueError"

\* number of right records joined to the closed neighbourhood of u, each
\* record counted once
JoinedOnce(right, S) == Cardinality({j \in 1 .. Len(right) : right[j] \in {nID(v) : v \in S}})

\* ------------------------------------------------------------------ C1
\* C1: after any sequence of calls to courtyards, blocks_count, reached
\* (with spatial_weights) and node_density on one weights object, every
\* adjacency list is exactly the list it was before the first call.
C1_GraphUnchanged == neighbors = neighbors0

\* ------------------------------------------------------------------ C2
\* C2: two calls of reached in a row with the same right table, the same
\* weights object and mode 'count' return the same per-unit counts.
C2_ReachedRepeatable ==
    [][(/\ ret.op = "reached"
        /\ ret'.op = "reached"
        /\ ret'.args = ret.args
        /\ ret.args[3] = "count") => ret'.value = ret.value]_vars

\* ------------------------------------------------------------------ C3
\* C3: the to_join lists courtyards builds form a partition of the units
\* (every unit in exactly one group), and inside a group every unit is
\* reachable from every other one along the adjacency lists; symmetry of
\* the lists is not assumed.
C3_TruePartition ==
    CourtyardsReturned =>
        /\ \A u \in Units :
              Cardinality({i \in 1 .. Len(groups) : u \in Range(groups[i].to_join)}) = 1
        /\ \A i \in 1 .. Len(groups) :
              \A a, b \in Range(groups[i].to_join) : b \in ReachFrom(neighbors, {a})

\* ------------------------------------------------------------------ C4
\* C4: a failing geometry step never aborts the call (whichever component
\* fails, the first one included), and once the call has returned every
\* unit filled by a component whose step succeeded holds the count that
\* step produced.
C4_FailureNotFatal ==
    /\ (\E i \in 1 .. Len(groups) : GroupFailed(i)) => ~CourtyardsAborted
    /\ CourtyardsReturned =>
          \A i \in 1 .. Len(groups) :
              ~GroupFailed(i) =>
                  \A b \in Range(groups[i].to_join) :
                      prov[b].owner = groups[i].seed => prov[b].src = groups[i].seed

\* ------------------------------------------------------------------ C5
\* C5: no unit is ever given a hole count that was computed by the
\* geometry step of another component than the one that filled it.
C5_NoSubstitutedValue ==
    \A b \in DOMAIN prov : prov[b].src = prov[b].owner

\* ------------------------------------------------------------------ C6
\* C6: reached in mode 'count' with spatial weights returns, for every
\* unit, the number of right records keyed by a unit of the closed 1-hop
\* neighbourhood taken as a set (a self-loop or a repeated neighbour adds
\* nothing).  The stored list after the call is the list before it plus
\* the unit itself, so its range is that closed neighbourhood.
C6_CountOverSet ==
    (ret.op = "reached" /\ ret.args[2] /\ ret.args[3] = "count") =>
        \A u \in Units :
            ret.value[u + 1] = JoinedOnce(ret.args[1], Range(neighbors[u]) \cup {u})

\* ------------------------------------------------------------------ C7
\* C7: for a unit without neighbours every 1-hop operation works on the
\* singleton neighbourhood and yields a value: blocks_count returns
\* 1 / area, reached count / sum return the unit's own count / sum, and
\* node_density returns.  (A list that is <<u>> after reached was empty
\* before it; a list still empty after blocks_count was empty before it.)
C7_IsolatedUnitValue ==
    /\ ret.op = "blocks_count" =>
          /\ ret.status = "ok"
          /\ \A u \in Units : neighbors[u] = <<>> => ret.value[u + 1] = Div(1, Area(u))
    /\ (ret.op = "reached" /\ ret.args[2]) =>
          \A u \in Units :
              neighbors[u] = <<u>> =>
                  ret.value[u + 1] =
                      IF ret.args[3] = "count"
                      THEN Counter(ret.args[1], nID(u))
                      ELSE ReachedSum(<<nID(u)>>, ret.args[1])
    /\ ret.op = "node_density" => ret.status = "ok"

\* ------------------------------------------------------------------ C8
\* C8: weighted elements_count on a table with a unit of area (length) 0
\* raises, and no returned value is infinite or otherwise not a number.
C8_ZeroMeasureRaises ==
    ret.op = "elements_count" =>
        /\ (ret.status = "ok" /\ ret.args[2]) => \A u \in Units : ret.args[4][u] # 0
        /\ ret.status = "ok" => \A i \in 1 .. MaxUnits : ret.value[i].kind = "num"

\* ------------------------------------------------------------------ C9
\* C9: over a whole courtyards call the geometry step runs once per
\* connected component of the adjacency graph, and all units of one
\* component hold the one integer that component's step produced.
C9_OncePerComponent ==
    CourtyardsReturned =>
        /\ Len(groups) = Cardinality(Components(neighbors))
        /\ \A b \in Units : prov[b].src = prov[b].owner
        /\ \A C \in Components(neighbors) : \A a, b \in C : courtyards[a] = courtyards[b]

\* ----------------------------------------------------------------- C10
\* C10: the closure loop of courtyards terminates on every adjacency
\* structure (self-loops, cycles, repeated entries, one-directional edges),
\* and within one seed's closure no unit is added to to_join twice.
C10_ClosureTerminates ==
    /\ [](Cardinality(Range(to_join)) = Len(to_join))
    /\ (pc \in {"rows", "for", "while"}) ~> (pc = "geometry")

\* a closure that met the seed again and a repeated entry, and still ended
C10_Witness ==
    /\ pc = "geometry"
    /\ Len(to_join) >= 2
    /\ Len(neighbours) > Len(to_join)
    /\ InList(to_join[1], neighbours)

====
